---- MODULE Spec2Model ----
(***************************************************************************)
(* Model of backend/server.py: the POST /convert handler (convert_file)    *)
(* and the DOCX-to-PDF rendering loop it contains.                         *)
(*                                                                         *)
(* File names and paths are sequences of one-character strings, so that    *)
(* secure_filename, os.path.join, os.path.basename and str.split are       *)
(* modelled by what they do to the characters.                             *)
(***************************************************************************)
EXTENDS Integers, Sequences, FiniteSets, TLC

(***************************************************************************)
(* Bounds of the model.                                                    *)
(***************************************************************************)
MaxNameLen == 3        \* longest uploaded filename enumerated by SpecSolo
MaxParas == 40         \* most paragraphs of a DOCX enumerated by SpecRender

Requests == {1, 2}     \* the concurrent requests of Spec
Alphabet == {"a", ".", "/", " ", "#", "_"}
AllNames == UNION {[1..n -> Alphabet] : n \in 0..MaxNameLen}
FileNames == {<<"a", ".", "p">>, <<"/", "a", ".", "p">>, <<"b", ".", "d">>, <<".", ".">>}
Tokens == {"1", "2"}   \* values of uuid.uuid4().hex, one symbol each

(***************************************************************************)
(* Strings.                                                                *)
(***************************************************************************)
RECURSIVE ReplaceChar(_, _, _)
ReplaceChar(s, old, new) ==
    IF s = <<>> THEN <<>>
    ELSE <<IF Head(s) = old THEN new ELSE Head(s)>> \o ReplaceChar(Tail(s), old, new)

\* str.split(): the maximal runs of non-whitespace characters, in order
RECURSIVE SplitRuns(_, _, _)
SplitRuns(s, sep, cur) ==
    IF s = <<>> THEN (IF cur = <<>> THEN <<>> ELSE <<cur>>)
    ELSE IF Head(s) = sep
         THEN (IF cur = <<>> THEN <<>> ELSE <<cur>>) \o SplitRuns(Tail(s), sep, <<>>)
         ELSE SplitRuns(Tail(s), sep, Append(cur, Head(s)))

SplitWhitespace(s) == SplitRuns(s, " ", <<>>)

\* sep.join(parts)
RECURSIVE Join(_, _)
Join(parts, sep) ==
    IF parts = <<>> THEN <<>>
    ELSE IF Len(parts) = 1 THEN Head(parts)
    ELSE Head(parts) \o <<sep>> \o Join(Tail(parts), sep)

\* the characters [A-Za-z0-9_.-] kept by _filename_ascii_strip_re
SafeChars == {"a", "b", "d", "p", ".", "_", "-"}

RECURSIVE KeepChars(_, _)
KeepChars(s, keep) ==
    IF s = <<>> THEN <<>>
    ELSE (IF Head(s) \in keep THEN <<Head(s)>> ELSE <<>>) \o KeepChars(Tail(s), keep)

RECURSIVE LStrip(_, _)
LStrip(s, chars) ==
    IF s # <<>> /\ Head(s) \in chars THEN LStrip(Tail(s), chars) ELSE s

RECURSIVE RStrip(_, _)
RStrip(s, chars) ==
    IF s # <<>> /\ s[Len(s)] \in chars THEN RStrip(SubSeq(s, 1, Len(s) - 1), chars) ELSE s

\* str.strip(chars)
Strip(s, chars) == RStrip(LStrip(s, chars), chars)

\* werkzeug.utils.secure_filename on a POSIX host (os.sep = "/", no altsep):
\* separators become spaces, whitespace runs become "_", characters outside
\* [A-Za-z0-9_.-] are dropped, leading and trailing "." and "_" are stripped.
secure_filename(filename) ==
    Strip(KeepChars(Join(SplitWhitespace(ReplaceChar(filename, "/", " ")), "_"), SafeChars),
          {".", "_"})

\* s.split('.')[0]: the characters before the first "."
RECURSIVE FirstDotPart(_)
FirstDotPart(s) ==
    IF s = <<>> \/ Head(s) = "." THEN <<>> ELSE <<Head(s)>> \o FirstDotPart(Tail(s))

(***************************************************************************)
(* Paths.                                                                  *)
(***************************************************************************)
UPLOAD_FOLDER == <<"/", "u">>
CONVERTED_FOLDER == <<"/", "c">>

\* os.path.join(a, b) on POSIX
PathJoin(a, b) ==
    IF b # <<>> /\ Head(b) = "/" THEN b
    ELSE IF a = <<>> \/ a[Len(a)] = "/" THEN a \o b
    ELSE a \o <<"/">> \o b

\* index of the last occurrence of c in s, 0 when there is none
LastIndexOf(s, c) ==
    LET hits == {i \in 1..Len(s) : s[i] = c}
    IN IF hits = {} THEN 0 ELSE CHOOSE i \in hits : \A j \in hits : j <= i

\* os.path.basename(p): what follows the last "/"
Basename(p) == SubSeq(p, LastIndexOf(p, "/") + 1, Len(p))

\* os.path.splitext(p)[1] for names without leading dots
Extension(p) ==
    LET b == Basename(p)
        k == LastIndexOf(b, ".")
    IN IF k <= 1 THEN <<>> ELSE SubSeq(b, k, Len(b))

\* components of a path: the runs between "/" characters
Components(p) == SplitRuns(p, "/", <<>>)

\* the components after "." and ".." have been resolved (os.path.normpath)
RECURSIVE Resolve(_, _)
Resolve(comps, acc) ==
    IF comps = <<>> THEN acc
    ELSE IF Head(comps) = <<".">> THEN Resolve(Tail(comps), acc)
    ELSE IF Head(comps) = <<".", ".">>
         THEN Resolve(Tail(comps), IF acc = <<>> THEN <<>> ELSE SubSeq(acc, 1, Len(acc) - 1))
    ELSE Resolve(Tail(comps), Append(acc, Head(comps)))

NormPath(p) == Resolve(Components(p), <<>>)

\* p names the directory dir itself
IsSameDir(p, dir) == NormPath(p) = NormPath(dir)

\* p names something strictly below the directory dir
StrictlyInside(p, dir) ==
    LET np == NormPath(p)
        nd == NormPath(dir)
    IN Len(np) > Len(nd) /\ SubSeq(np, 1, Len(nd)) = nd

\* open(p, "wb") fails with IsADirectoryError on the two folders made at startup
IsDirectory(p) ==
    (p # <<>> /\ p[Len(p)] = "/") \/ IsSameDir(p, UPLOAD_FOLDER) \/ IsSameDir(p, CONVERTED_FOLDER)

(***************************************************************************)
(* The PDF canvas (reportlab.pdfgen.canvas.Canvas) as the handler uses it: *)
(* code is the content stream of the page being built, pages the pages     *)
(* already closed.  setFont and drawString append to the current page,     *)
(* showPage closes it, save closes it only when it is not empty.           *)
(***************************************************************************)
TOP_Y == 800          \* y_position = 800
LINE_HEIGHT == 20     \* y_position -= 20
BOTTOM_MARGIN == 50   \* if y_position < 50
LEFT_X == 50          \* pdf.drawString(50, ...)

FontOp == [op |-> "setFont", x |-> 0, y |-> 0, text |-> ""]
TextOp(x, y, text) == [op |-> "drawString", x |-> x, y |-> y, text |-> text]

Canvas == [code |-> <<>>, pages |-> <<>>]
setFont(c) == [c EXCEPT !.code = Append(@, FontOp)]
drawString(c, x, y, text) == [c EXCEPT !.code = Append(@, TextOp(x, y, text))]
showPage(c) == [code |-> <<>>, pages |-> Append(c.pages, c.code)]
save(c) == IF c.code # <<>> THEN showPage(c) ELSE c

\* lines 62-68 without the reset of line 68
LoopBody_NoReset(st, text) ==
    LET drawn == drawString(st.pdf, LEFT_X, st.y_position, text)
        y == st.y_position - LINE_HEIGHT
    IN IF y < BOTTOM_MARGIN
       THEN [pdf |-> setFont(showPage(drawn)), y_position |-> y]
       ELSE [pdf |-> drawn, y_position |-> y]

\* lines 62-68: the body of the loop for one paragraph
LoopBody(st, text) ==
    LET drawn == drawString(st.pdf, LEFT_X, st.y_position, text)
        y == st.y_position - LINE_HEIGHT
    IN IF y < BOTTOM_MARGIN
       THEN [pdf |-> setFont(showPage(drawn)), y_position |-> TOP_Y]
       ELSE [pdf |-> drawn, y_position |-> y]

\* lines 57-60: the canvas and offset the loop starts from
LoopStart == [pdf |-> setFont(Canvas), y_position |-> TOP_Y]

RECURSIVE RenderLoop(_, _)
RenderLoop(st, paras) ==
    IF paras = <<>> THEN st ELSE RenderLoop(LoopBody(st, Head(paras)), Tail(paras))

\* lines 56-70: the pages of the PDF written for a list of paragraphs
DocxToPdf(paras) == save(RenderLoop(LoopStart, paras).pdf).pages

\* the text-drawing operations of a list of pages, in order, with their page
RECURSIVE PageDraws(_, _)
PageDraws(code, page) ==
    IF code = <<>> THEN <<>>
    ELSE (IF Head(code).op = "drawString"
          THEN <<[page |-> page, y |-> Head(code).y, x |-> Head(code).x, text |-> Head(code).text]>>
          ELSE <<>>) \o PageDraws(Tail(code), page)

RECURSIVE DrawsFrom(_, _)
DrawsFrom(pages, first) ==
    IF pages = <<>> THEN <<>>
    ELSE PageDraws(Head(pages), first) \o DrawsFrom(Tail(pages), first + 1)

Draws(pages) == DrawsFrom(pages, 1)

(***************************************************************************)
(* Requests, file contents and responses.                                  *)
(***************************************************************************)
NoBytes == [id |-> "none", kind |-> "none", paras |-> <<>>]
Payloads ==
    { [id |-> "P1", kind |-> "pdf", paras |-> <<>>],
      [id |-> "D1", kind |-> "docx", paras |-> <<"t1", "t2">>] }

TypeValues == {"", "pdf-to-docx", "docx-to-pdf", "xyz"}
TypeFields ==
    {[hasType |-> FALSE, type |-> ""]} \cup {[hasType |-> TRUE, type |-> t] : t \in TypeValues}

\* the requests a client can send: the multipart parts "file" and "type"
Inputs(names) ==
    { [hasFile |-> FALSE, filename |-> <<>>, bytes |-> NoBytes,
       hasType |-> tf.hasType, type |-> tf.type] : tf \in TypeFields }
    \cup
    { [hasFile |-> TRUE, filename |-> n, bytes |-> b,
       hasType |-> tf.hasType, type |-> tf.type] :
        n \in names, b \in Payloads, tf \in TypeFields }

NoInput == [hasFile |-> FALSE, filename |-> <<>>, bytes |-> NoBytes, hasType |-> FALSE, type |-> ""]

NoFile == [fmt |-> "none", from |-> "none", empty |-> TRUE, pages |-> <<>>]
\* an uploaded file on disk; pages holds the paragraphs of a DOCX
Upload(b) == [fmt |-> b.kind, from |-> b.id, empty |-> FALSE, pages |-> b.paras]

PDF_MIME == "application/pdf"
DOCX_MIME == "application/vnd.openxmlformats-officedocument.wordprocessingml.document"

NoResponse ==
    [status |-> 0, error |-> "", detail |-> "", body |-> NoFile,
     download_name |-> <<>>, mimetype |-> ""]

\* jsonify({"error": ...}), status
JsonError(status, error, detail) ==
    [status |-> status, error |-> error, detail |-> detail, body |-> NoFile,
     download_name |-> <<>>, mimetype |-> "application/json"]

\* the except clause of lines 89-91
ConversionFailed(exc) == JsonError(500, "Conversion failed", exc)

\* send_file(...) of lines 80-85
send_file(content, name, mimetype) ==
    [status |-> 200, error |-> "", detail |-> "", body |-> content,
     download_name |-> name, mimetype |-> mimetype]

\* line 84 with the comparison against the other literal
MimeTypeFor_Swapped(conversion_type) ==
    IF conversion_type = "pdf-to-docx" THEN PDF_MIME ELSE DOCX_MIME

\* line 84
MimeTypeFor(conversion_type) ==
    IF conversion_type = "docx-to-pdf" THEN PDF_MIME ELSE DOCX_MIME

\* lines 44 and 52: the artifact's extension
DOCX_EXT == <<".", "d", "o", "c", "x">>
PDF_EXT == <<".", "p", "d", "f">>

\* line 40
UniqueFilename(filename, token) == FirstDotPart(filename) \o <<"-", token>>

\* lines 44 and 52
ConvertedPath(filename, token, ext) ==
    PathJoin(CONVERTED_FOLDER, UniqueFilename(filename, token) \o ext)

\* line 35
UploadPath(rawname) == PathJoin(UPLOAD_FOLDER, secure_filename(rawname))

\* lines 25 and 30: the two presence checks
FilePresent(in) == in.hasFile
TypePresent(in) == in.hasType /\ in.type # ""
RecognizedType(t) == t \in {"pdf-to-docx", "docx-to-pdf"}

\* a file system with the file at path p replaced by content c
WriteFile(files, p, c) ==
    [q \in DOMAIN files \cup {p} |-> IF q = p THEN c ELSE files[q]]

\* the regular files of a directory
DirContents(files, dir) ==
    [q \in {p \in DOMAIN files : StrictlyInside(p, dir)} |-> files[q]]

(***************************************************************************)
(* State.                                                                  *)
(***************************************************************************)
VARIABLES
    pc,              \* per request: where the handler is
    req,             \* per request: the request received
    fs,              \* the files on disk: path -> content
    filepath,        \* per request: local variable filepath
    converted_path,  \* per request: local variable converted_path
    cvInput,         \* per request: the content the converter read
    cvCalls,         \* per request: number of converter invocations
    resp,            \* per request: the response sent
    nresp,           \* per request: number of responses sent
    doc,             \* renderer: the paragraphs of the document
    para,            \* renderer: index of the next paragraph
    y_position,      \* renderer: local variable y_position
    pdf,             \* renderer: the canvas
    rpc              \* renderer: where the conversion is

reqVars == <<pc, req, fs, filepath, converted_path, cvInput, cvCalls, resp, nresp>>
renderVars == <<doc, para, y_position, pdf, rpc>>
vars == <<pc, req, fs, filepath, converted_path, cvInput, cvCalls, resp, nresp,
          doc, para, y_position, pdf, rpc>>

EmptyFs == [p \in {} |-> NoFile]

RequestsIdle ==
    /\ pc = [r \in Requests |-> "Idle"]
    /\ req = [r \in Requests |-> NoInput]
    /\ fs = EmptyFs
    /\ filepath = [r \in Requests |-> <<>>]
    /\ converted_path = [r \in Requests |-> <<>>]
    /\ cvInput = [r \in Requests |-> NoFile]
    /\ cvCalls = [r \in Requests |-> 0]
    /\ resp = [r \in Requests |-> NoResponse]
    /\ nresp = [r \in Requests |-> 0]

RendererIdle ==
    /\ doc = <<>>
    /\ para = 1
    /\ y_position = TOP_Y
    /\ pdf = Canvas
    /\ rpc = "idle"

Init == RequestsIdle /\ RendererIdle

(***************************************************************************)
(* The handler, one action per step between two accesses to the disk.      *)
(***************************************************************************)
\* the handler returns or its except clause runs: one response is sent
Respond(r, response) ==
    /\ resp' = [resp EXCEPT ![r] = response]
    /\ nresp' = [nresp EXCEPT ![r] = @ + 1]
    /\ pc' = [pc EXCEPT ![r] = IF response.status = 200 THEN "Completed" ELSE "Failed"]

\* a client's POST /convert arrives
Receive(r, names) ==
    /\ pc[r] = "Idle"
    /\ \E in \in Inputs(names) : req' = [req EXCEPT ![r] = in]
    /\ pc' = [pc EXCEPT ![r] = "Received"]
    /\ UNCHANGED <<fs, filepath, converted_path, cvInput, cvCalls, resp, nresp, renderVars>>

\* lines 25-31
Validate(r) ==
    /\ pc[r] = "Received"
    /\ IF ~FilePresent(req[r])
       THEN Respond(r, JsonError(400, "No file uploaded", ""))
       ELSE IF ~TypePresent(req[r])
       THEN Respond(r, JsonError(400, "Conversion type not specified", ""))
       ELSE /\ pc' = [pc EXCEPT ![r] = "Validated"]
            /\ UNCHANGED <<resp, nresp>>
    /\ UNCHANGED <<req, fs, filepath, converted_path, cvInput, cvCalls, renderVars>>

\* lines 34-36: file.save(filepath) opens the path for writing and copies
\* the bytes; opening a directory raises, and the disk may refuse the write
Store(r) ==
    /\ pc[r] = "Validated"
    /\ LET path == UploadPath(req[r].filename) IN
        /\ filepath' = [filepath EXCEPT ![r] = path]
        /\ IF IsDirectory(path)
           THEN /\ Respond(r, ConversionFailed("IsADirectoryError"))
                /\ UNCHANGED fs
           ELSE \/ /\ fs' = WriteFile(fs, path, Upload(req[r].bytes))
                   /\ pc' = [pc EXCEPT ![r] = "Stored"]
                   /\ UNCHANGED <<resp, nresp>>
                \/ /\ Respond(r, ConversionFailed("OSError"))
                   /\ UNCHANGED fs
    /\ UNCHANGED <<req, converted_path, cvInput, cvCalls, renderVars>>

\* the token of an artifact path: the symbol after the last "-"
TokenOf(path) == path[LastIndexOf(path, "-") + 1]

\* the tokens uuid4 has already produced
UsedTokens == {TokenOf(converted_path[q]) : q \in {q \in Requests : converted_path[q] # <<>>}}

\* lines 40-56 and 72-73: the artifact is named, the type selects the
\* converter, and the converter opens the stored upload
Dispatch(r) ==
    /\ pc[r] = "Stored"
    /\ LET filename == secure_filename(req[r].filename)
           conversion_type == req[r].type
           stored == fs[filepath[r]]
       IN \E token \in Tokens \ UsedTokens :
            IF conversion_type = "pdf-to-docx"
            THEN /\ converted_path' = [converted_path EXCEPT ![r] =
                                          ConvertedPath(filename, token, DOCX_EXT)]
                 /\ cvInput' = [cvInput EXCEPT ![r] = stored]
                 /\ cvCalls' = [cvCalls EXCEPT ![r] = @ + 1]
                 /\ pc' = [pc EXCEPT ![r] = "Converting"]
                 /\ UNCHANGED <<resp, nresp>>
            ELSE IF conversion_type = "docx-to-pdf"
            THEN /\ converted_path' = [converted_path EXCEPT ![r] =
                                          ConvertedPath(filename, token, PDF_EXT)]
                 /\ cvInput' = [cvInput EXCEPT ![r] = stored]
                 /\ cvCalls' = [cvCalls EXCEPT ![r] = @ + 1]
                 /\ IF stored.fmt = "docx"
                    THEN /\ pc' = [pc EXCEPT ![r] = "Converting"]
                         /\ UNCHANGED <<resp, nresp>>
                    ELSE Respond(r, ConversionFailed("PackageNotFoundError"))
            ELSE /\ Respond(r, JsonError(400, "Invalid conversion type", ""))
                 /\ UNCHANGED <<converted_path, cvInput, cvCalls>>
    /\ UNCHANGED <<req, fs, filepath, renderVars>>

\* what the external PDF-to-DOCX converter may do with a source file
ConverterOutcomes == {"written", "empty", "nothing", "raise"}

\* lines 47-48 and 57-70: the converter writes the artifact
Convert(r) ==
    /\ pc[r] = "Converting"
    /\ IF req[r].type = "pdf-to-docx"
       THEN \E outcome \in ConverterOutcomes :
              IF outcome = "raise"
              THEN /\ Respond(r, ConversionFailed("ConversionException"))
                   /\ UNCHANGED fs
              ELSE /\ fs' = IF outcome = "nothing" THEN fs
                            ELSE WriteFile(fs, converted_path[r],
                                           [fmt |-> "docx", from |-> cvInput[r].from,
                                            empty |-> (outcome = "empty"), pages |-> <<>>])
                   /\ pc' = [pc EXCEPT ![r] = "Converted"]
                   /\ UNCHANGED <<resp, nresp>>
       ELSE /\ fs' = WriteFile(fs, converted_path[r],
                               [fmt |-> "pdf", from |-> cvInput[r].from,
                                empty |-> FALSE, pages |-> DocxToPdf(cvInput[r].pages)])
            /\ pc' = [pc EXCEPT ![r] = "Converted"]
            /\ UNCHANGED <<resp, nresp>>
    /\ UNCHANGED <<req, filepath, converted_path, cvInput, cvCalls, renderVars>>

\* lines 76-87
Send(r) ==
    /\ pc[r] = "Converted"
    /\ IF converted_path[r] # <<>> /\ converted_path[r] \in DOMAIN fs
       THEN Respond(r, send_file(fs[converted_path[r]], Basename(converted_path[r]),
                                 MimeTypeFor(req[r].type)))
       ELSE Respond(r, ConversionFailed("FileNotFoundError"))
    /\ UNCHANGED <<req, fs, filepath, converted_path, cvInput, cvCalls, renderVars>>

Next ==
    \E r \in Requests :
        \/ Receive(r, FileNames)
        \/ Validate(r)
        \/ Store(r)
        \/ Dispatch(r)
        \/ Convert(r)
        \/ Send(r)

Spec == Init /\ [][Next]_vars

\* one request at a time, with every filename up to MaxNameLen
NextSolo ==
    \/ Receive(1, AllNames)
    \/ Validate(1)
    \/ Store(1)
    \/ Dispatch(1)
    \/ Convert(1)
    \/ Send(1)

SpecSolo == Init /\ [][NextSolo]_vars

(***************************************************************************)
(* The DOCX-to-PDF conversion of lines 56-70, one paragraph per step.      *)
(***************************************************************************)
TextOf(n) == IF n = 0 THEN "t0" ELSE IF n = 1 THEN "t1" ELSE "t2"
Patterns == {1, 2, 3}
Docs == {[i \in 1..n |-> TextOf((i * k) % 3)] : n \in 0..MaxParas, k \in Patterns}

\* lines 56-60: Document(filepath), Canvas(converted_path), setFont
RenderOpen ==
    /\ rpc = "idle"
    /\ \E d \in Docs : doc' = d
    /\ para' = 1
    /\ pdf' = LoopStart.pdf
    /\ y_position' = LoopStart.y_position
    /\ rpc' = "loop"
    /\ UNCHANGED reqVars

\* lines 61-68: one iteration of the loop
RenderParagraph ==
    /\ rpc = "loop"
    /\ para <= Len(doc)
    /\ LET st == LoopBody([pdf |-> pdf, y_position |-> y_position], doc[para]) IN
        /\ pdf' = st.pdf
        /\ y_position' = st.y_position
    /\ para' = para + 1
    /\ UNCHANGED <<doc, rpc, reqVars>>

\* line 70
RenderSave ==
    /\ rpc = "loop"
    /\ para > Len(doc)
    /\ pdf' = save(pdf)
    /\ rpc' = "saved"
    /\ UNCHANGED <<doc, para, y_position, reqVars>>

NextRender == RenderOpen \/ RenderParagraph \/ RenderSave

SpecRender == Init /\ [][NextRender]_vars

(***************************************************************************)
(* Properties.                                                             *)
(***************************************************************************)
Terminal(r) == pc[r] \in {"Completed", "Failed"}

\* the request passes validation: file present, type present and recognized
ValidRequest(in) == FilePresent(in) /\ TypePresent(in) /\ RecognizedType(in.type)

Is400(response, message) ==
    /\ response.status = 400
    /\ response.mimetype = "application/json"
    /\ response.error = message

\* C1: every request with invalid input is answered 400 with the JSON error
\* naming the problem, whatever the uploaded filename: no file part gives
\* "No file uploaded", a missing or empty type "Conversion type not
\* specified", an unrecognized type "Invalid conversion type".  Runs in which
\* the disk itself refuses the write are left out of the statement.
C1_InvalidInputAnswered400 ==
    \A r \in Requests :
        (Terminal(r) /\ resp[r].detail # "OSError") =>
            /\ ~FilePresent(req[r]) => Is400(resp[r], "No file uploaded")
            /\ (FilePresent(req[r]) /\ ~TypePresent(req[r]))
                   => Is400(resp[r], "Conversion type not specified")
            /\ (FilePresent(req[r]) /\ TypePresent(req[r]) /\ ~RecognizedType(req[r].type))
                   => Is400(resp[r], "Invalid conversion type")

\* C2: a request that fails validation has no side effects: when its 400
\* response is produced, the upload directory and the converted directory
\* hold what they held when the request was received (nothing, for the
\* single request of SpecSolo).
C2_FailedValidationNoSideEffects ==
    (resp[1].status = 400 /\ ~ValidRequest(req[1])) =>
        /\ DirContents(fs, UPLOAD_FOLDER) = EmptyFs
        /\ DirContents(fs, CONVERTED_FOLDER) = EmptyFs

\* C3: the bytes a request's converter reads from its stored upload path are
\* the bytes that same request uploaded, under every interleaving.
C3_ConverterReadsOwnUpload ==
    \A r \in Requests : cvCalls[r] > 0 => cvInput[r] = Upload(req[r].bytes)

\* the responses a request can get when it is the only request: the
\* handler's steps in sequence on a disk nobody else writes
AloneResponses(in) ==
    IF ~FilePresent(in) THEN {JsonError(400, "No file uploaded", "")}
    ELSE IF ~TypePresent(in) THEN {JsonError(400, "Conversion type not specified", "")}
    ELSE LET filename == secure_filename(in.filename) IN
         IF IsDirectory(PathJoin(UPLOAD_FOLDER, filename))
         THEN {ConversionFailed("IsADirectoryError")}
         ELSE {ConversionFailed("OSError")} \cup
              (IF in.type = "pdf-to-docx"
               THEN {ConversionFailed("ConversionException"), ConversionFailed("FileNotFoundError")}
                    \cup {send_file([fmt |-> "docx", from |-> in.bytes.id, empty |-> e,
                                     pages |-> <<>>],
                                    UniqueFilename(filename, t) \o DOCX_EXT, DOCX_MIME) :
                             t \in Tokens, e \in BOOLEAN}
               ELSE IF in.type = "docx-to-pdf"
               THEN (IF in.bytes.kind = "docx"
                     THEN {send_file([fmt |-> "pdf", from |-> in.bytes.id, empty |-> FALSE,
                                      pages |-> DocxToPdf(in.bytes.paras)],
                                     UniqueFilename(filename, t) \o PDF_EXT, PDF_MIME) :
                              t \in Tokens}
                     ELSE {ConversionFailed("PackageNotFoundError")})
               ELSE {JsonError(400, "Invalid conversion type", "")})

\* the single request of SpecSolo gets one of the responses of AloneResponses
SoloResponseIsAlone == Terminal(1) => resp[1] \in AloneResponses(req[1])

\* C4: two simultaneous requests with different original filenames and
\* different conversion types each get the response they would get alone,
\* under every interleaving of their store, convert and send steps.
C4_NoInterference ==
    \A r, q \in Requests :
        ( /\ r # q
          /\ Terminal(r) /\ Terminal(q)
          /\ FilePresent(req[r]) /\ FilePresent(req[q])
          /\ req[r].filename # req[q].filename
          /\ RecognizedType(req[r].type) /\ RecognizedType(req[q].type)
          /\ req[r].type # req[q].type )
        => resp[r] \in AloneResponses(req[r])

\* a request has computed the path of its upload (line 35 has run)
PathComputed(r) == filepath[r] # <<>>

\* C5: for every untrusted filename the path the upload is written to is a
\* file path strictly inside the upload directory: never the directory
\* itself, never a path outside it.
C5_UploadPathStrictlyInside ==
    \A r \in Requests : PathComputed(r) => StrictlyInside(filepath[r], UPLOAD_FOLDER)

\* the part of C5 that the sanitizer does achieve: the path never leaves the
\* upload directory
UploadPathNeverOutside ==
    \A r \in Requests :
        PathComputed(r) =>
            \/ StrictlyInside(filepath[r], UPLOAD_FOLDER)
            \/ IsSameDir(filepath[r], UPLOAD_FOLDER)

\* C6: a 200 file response is sent only for an artifact that exists and has
\* non-zero size, and a conversion that returns without producing the
\* artifact is answered 500 with a JSON error.
C6_FileResponseOnlyForNonEmptyArtifact ==
    \A r \in Requests :
        /\ resp[r].status = 200 =>
              /\ converted_path[r] \in DOMAIN fs
              /\ ~fs[converted_path[r]].empty
              /\ ~resp[r].body.empty
        /\ (Terminal(r) /\ converted_path[r] # <<>> /\ converted_path[r] \notin DOMAIN fs) =>
              /\ resp[r].status = 500
              /\ resp[r].mimetype = "application/json"

\* the part of C6 the handler does enforce: existence of the artifact
FileResponseOnlyForExistingArtifact ==
    \A r \in Requests :
        resp[r].status = 200 =>
            converted_path[r] \in DOMAIN fs /\ resp[r].body = fs[converted_path[r]]

\* C7: in every 200 response the artifact's extension and the Content-Type
\* match the requested type (docx-to-pdf: ".pdf" and application/pdf;
\* pdf-to-docx: ".docx" and the OOXML word-processing type), and the
\* attachment filename is the name of the artifact in the converted folder.
C7_ExtensionAndMimeMatchType ==
    \A r \in Requests :
        resp[r].status = 200 =>
            /\ RecognizedType(req[r].type)
            /\ req[r].type = "docx-to-pdf" =>
                  /\ Extension(converted_path[r]) = PDF_EXT
                  /\ resp[r].mimetype = PDF_MIME
            /\ req[r].type = "pdf-to-docx" =>
                  /\ Extension(converted_path[r]) = DOCX_EXT
                  /\ resp[r].mimetype = DOCX_MIME
            /\ PathJoin(CONVERTED_FOLDER, resp[r].download_name) = converted_path[r]
            /\ Components(resp[r].download_name) = <<resp[r].download_name>>
            /\ Extension(resp[r].download_name) = Extension(converted_path[r])

C7_Witness ==
    /\ resp[1].status = 200
    /\ req[1].type = "docx-to-pdf"
    /\ req[1].filename = <<"/", "a", "#">>
    /\ resp[1].mimetype = PDF_MIME

\* reachability of the other half of C7's case
C7_DocxWitness == resp[1].status = 200 /\ req[1].type = "pdf-to-docx"

Failures == {"IsADirectoryError", "OSError", "ConversionException", "PackageNotFoundError"}

\* C8: each request moves along Received, Validated, Stored, Converting,
\* Completed or Failed: the upload is stored only after validation has
\* passed, a converter is invoked at most once, a failure of storage or of a
\* converter gives a 500 JSON error and never a file, and a request that has
\* finished has sent exactly one response.
C8_RequestStateMachine ==
    \A r \in Requests :
        /\ pc[r] \in {"Stored", "Converting", "Converted"} => ValidRequest(req[r])
        /\ cvCalls[r] <= 1
        /\ resp[r].detail \in Failures =>
              /\ pc[r] = "Failed"
              /\ resp[r].status = 500
              /\ resp[r].mimetype = "application/json"
              /\ resp[r].body = NoFile
        /\ nresp[r] = (IF Terminal(r) THEN 1 ELSE 0)

\* the parts of C8 that hold: everything but the order of store and validation
C8_WithoutStoreOrder ==
    \A r \in Requests :
        /\ pc[r] \in {"Stored", "Converting", "Converted"}
              => FilePresent(req[r]) /\ TypePresent(req[r])
        /\ pc[r] \in {"Converting", "Converted"} => ValidRequest(req[r])
        /\ cvCalls[r] <= 1
        /\ resp[r].detail \in Failures =>
              /\ pc[r] = "Failed"
              /\ resp[r].status = 500
              /\ resp[r].mimetype = "application/json"
              /\ resp[r].body = NoFile
        /\ nresp[r] = (IF Terminal(r) THEN 1 ELSE 0)

\* the order of the states: a step of a request moves it one state forward
\* or to Failed
C8_Transitions ==
    [][\A r \in Requests :
          pc'[r] # pc[r] =>
              \/ <<pc[r], pc'[r]>> \in
                    { <<"Idle", "Received">>, <<"Received", "Validated">>,
                      <<"Validated", "Stored">>, <<"Stored", "Converting">>,
                      <<"Converting", "Converted">>, <<"Converted", "Completed">> }
              \/ pc[r] \notin {"Idle", "Completed", "Failed"} /\ pc'[r] = "Failed"]_vars

\* the lines the renderer puts on a page before its page break
LinesPerPage == (TOP_Y - BOTTOM_MARGIN) \div LINE_HEIGHT + 1

\* the text-drawing operations the canvas has received so far
CanvasDraws == Draws(Append(pdf.pages, pdf.code))

\* C9: the canvas receives one text-drawing operation per paragraph, the
\* i-th with the text of the i-th paragraph, at offsets that start at 800
\* and go down by 20, with a page break after a fixed number of lines and
\* the offset back at 800, and never below the bottom margin of 50.
C9_OneDrawPerParagraph ==
    rpc \in {"loop", "saved"} =>
        /\ Len(CanvasDraws) = para - 1
        /\ rpc = "saved" => Len(CanvasDraws) = Len(doc)
        /\ \A i \in 1..Len(CanvasDraws) :
              /\ CanvasDraws[i].text = doc[i]
              /\ CanvasDraws[i].x = LEFT_X
              /\ CanvasDraws[i].y = TOP_Y - LINE_HEIGHT * ((i - 1) % LinesPerPage)
              /\ CanvasDraws[i].page = ((i - 1) \div LinesPerPage) + 1
              /\ CanvasDraws[i].y >= BOTTOM_MARGIN

C9_Witness ==
    /\ rpc = "saved"
    /\ Len(doc) = LinesPerPage + 2
    /\ Len(CanvasDraws) = Len(doc)
    /\ CanvasDraws[LinesPerPage + 1].y = TOP_Y
    /\ CanvasDraws[LinesPerPage + 1].page = 2

\* C10: with L the lines per page, a DOCX with N paragraphs, 1 <= N <= L,
\* gives exactly one page, and one with L + 1 paragraphs exactly two pages.
C10_PageCount ==
    rpc = "saved" =>
        /\ (1 <= Len(doc) /\ Len(doc) <= LinesPerPage) => Len(pdf.pages) = 1
        /\ Len(doc) = LinesPerPage + 1 => Len(pdf.pages) = 2

\* the page count the renderer does produce: a page is closed after every
\* LinesPerPage paragraphs and save closes one more
PageCountOfRenderer ==
    rpc = "saved" => Len(pdf.pages) = (Len(doc) \div LinesPerPage) + 1

====
